---- MODULE Spec2Model ----
(***************************************************************************)
(* A model of the webActivity repository.                                  *)
(*                                                                         *)
(* Part 1: the MITM controller of setup_mitm.py (class MITMSetup and the   *)
(* try/except/finally block of main).  The operating system's forwarding   *)
(* flag and NAT table, the answers to ARP requests, the result of every    *)
(* os.system command, errors raised by scapy.send and the operator's       *)
(* Ctrl+C are the environment: each is a nondeterministic choice.          *)
(***************************************************************************)
EXTENDS Integers, Sequences, FiniteSets, TLC

\* ------------------------------------------------------------- bounds
\* The largest number of --target arguments considered.
MaxTargets == 2
\* The largest number of completed spoof cycles (caps packet_count).
MaxCycles == 2

\* ---------------------------------------------------------- constants
\* sys.platform, as main and MITMSetup distinguish it.
Platforms == {"linux", "darwin", "win32", "other"}
\* The effective user ids considered: root and an unprivileged user.
Euids == {0, 1000}
\* The network address of the gateway (target addresses are 1..n).
gateway_ip == 0
\* The two destination ports setup_iptables_redirect redirects.
RedirectPorts == {80, 443}
\* scapy.send(packet, count=4) in restore.
RestoreCount == 4
\* get_mac's "no answer".
None == "None"

VARIABLES
    platform,      \* sys.platform
    euid,          \* os.geteuid()
    target_ips,    \* MITMSetup.target_ips, a sequence of addresses
    running,       \* MITMSetup.running
    packet_count,  \* start_spoofing's local packet_count
    ip_forward,    \* the OS forwarding flag (/proc/sys/net/ipv4/ip_forward)
    nat,           \* per redirected port, the number of identical REDIRECT rules
    pc,            \* the control position of main
    ti,            \* index of target_ip in the for loops
    leg,           \* 1: first call of the loop body, 2: second call
    exit_code,     \* -1 while the process runs, then its exit status
    raised,        \* the exception that ended the try block of main
    restored,      \* the corrective announcements sent by restore
    \* ---- observation (history) variables
    fwd0,          \* ip_forward before the controller ran
    nat0,          \* nat before the controller ran
    steps,         \* the functions main has called, in order
    event,         \* what the latest step did
    setup_failed,  \* an enable/NAT command of setup did not take effect
    restoreCalls,  \* the (destination, source) pairs restore was called for
    spoofed,       \* a falsified announcement has been sent
    attempted,     \* pairs spoof was called for in the current spoof cycle
    cycSent,       \* pairs announced in the current spoof cycle
    failed         \* pairs whose resolution failed in this run of the loop

\* Part 2 (below, after the claims of part 1): the passive monitor of
\* network_monitor.py, the scanner of scan_network.py and the filter
\* management tool of manage_devices.py, which share the device registry
\* (the devices table) and the filter configuration document.
VARIABLES
    cfg_file,      \* device_filter.json: the filter configuration document
    filter_config, \* NetworkMonitor.filter_config
    devices,       \* the committed rows of table devices; the id is the index
    dns_queries,   \* the rows of table dns_queries
    connections,   \* the rows of table connections
    now,           \* CURRENT_TIMESTAMP
    mon_pc,        \* the control position of the monitor
    frame,         \* the packet packet_handler was last called with
    mon_found,     \* get_or_create_device's result of the SELECT (0: no row)
    device_id,     \* the device_id the log function got back
    scan_pc,       \* the control position of scan_network.py
    scan_devices,  \* the list scan_network returned
    scan_i,        \* index of device in save_to_database's loop
    scan_found,    \* save_to_database's result of the SELECT (0: no row)
    scan_pending,  \* the scanner's uncommitted view of devices, or None
    \* ---- observation (history) variables
    handled,       \* the number of packets delivered to packet_handler
    made,          \* the rows the current packet has added, per table
    caught,        \* the number of exceptions the log functions have caught
    cfg_ops,       \* the number of runs of manage_devices.py
    scans,         \* the number of runs of scan_network.py
    scan_report,   \* how srp ended and what main of scan_network.py did then
    resolved,      \* per resolution so far: who, key, address, time, outcome
    verdict,       \* is_device_allowed's answer for the current packet
    doc_at_frame   \* cfg_file when packet_handler was last called

mitmVars == <<platform, euid, target_ips, running, packet_count, ip_forward, nat,
              pc, ti, leg, exit_code, raised, restored, fwd0, nat0, steps, event,
              setup_failed, restoreCalls, spoofed, attempted, cycSent, failed>>

fileVars == <<cfg_file, cfg_ops>>
dbVars == <<devices, dns_queries, connections>>
monitorVars == <<filter_config, mon_pc, frame, mon_found, device_id, handled, made,
                 caught>>
scanVars == <<scan_pc, scan_devices, scan_i, scan_found, scan_pending, scans,
              scan_report>>
histVars == <<resolved, verdict, doc_at_frame>>
monVars == <<fileVars, dbVars, now, monitorVars, scanVars, histVars>>

vars == <<mitmVars, monVars>>

\* --------------------------------------------------- part 2: the data
\* Strings the code normalises or tests by prefix are sequences of
\* characters (link addresses, query names) or of dotted parts (network
\* addresses), so that upper, strip, rstrip and startswith do what the
\* Python methods do.

\* The literal 'Unknown' the log functions use for a missing layer.
Unknown == <<"U", "n">>
\* A layer the packet does not have.
NoLayer == <<"NoLayer">>
\* No packet yet: a packet without any layer.
NoFrame ==
    [ether |-> NoLayer, src |-> NoLayer, dst |-> NoLayer, l4 |-> "none",
     sport |-> 0, dport |-> 0, dns |-> FALSE, dnsqr |-> FALSE,
     qr |-> 0, qname |-> <<>>, qtype |-> 0]

\* str.upper, character by character.
UpperChar(c) ==
    CASE c = "a" -> "A"
      [] c = "n" -> "N"
      [] OTHER -> c

upper(s) == [i \in 1..Len(s) |-> UpperChar(s[i])]

\* str.lstrip() for the blank.
RECURSIVE lstrip(_)
lstrip(s) == IF s # <<>> /\ Head(s) = " " THEN lstrip(Tail(s)) ELSE s

\* str.rstrip(c): every trailing c is removed.
RECURSIVE rstrip(_, _)
rstrip(s, c) ==
    IF s # <<>> /\ s[Len(s)] = c THEN rstrip(SubSeq(s, 1, Len(s) - 1), c) ELSE s

\* str.strip()
strip(s) == rstrip(lstrip(s), " ")

\* str.startswith(tuple of prefixes)
startswith(s, prefixes) ==
    \E q \in prefixes : Len(q) <= Len(s) /\ SubSeq(s, 1, Len(q)) = q

\* Mutant of LocalPrefixes: '8.' counts as local.
LocalPrefixes_WithPublic == {<<"192", "168">>, <<"10">>, <<"172", "16">>, <<"8">>}

\* The prefixes log_connection takes for the local network: '192.168.',
\* '10.' and '172.16.'.
LocalPrefixes == {<<"192", "168">>, <<"10">>, <<"172", "16">>}

\* Mutant of WebPorts: ssh is taken for a web port.
WebPorts_WithSsh == {22, 80, 443, 8080, 8443}

\* The destination ports log_connection logs for TCP.
WebPorts == {80, 443, 8080, 8443}

\* Mutant of qtype_map: TXT is missing from the table.
qtype_map_NoTxt(q) ==
    CASE q = 1 -> "A"
      [] q = 28 -> "AAAA"
      [] q = 5 -> "CNAME"
      [] q = 15 -> "MX"
      [] OTHER -> ToString(q)

\* log_dns_query's qtype_map.get(qtype, str(qtype)).
qtype_map(q) ==
    CASE q = 1 -> "A"
      [] q = 28 -> "AAAA"
      [] q = 5 -> "CNAME"
      [] q = 15 -> "MX"
      [] q = 16 -> "TXT"
      [] OTHER -> ToString(q)

\* The configuration load_filter_config and load_config fall back to.
DefaultConfig == [monitor_all_devices |-> TRUE, interested_devices |-> <<>>]

\* The rows a packet has added so far, per table: none.
NoRows == [devices |-> 0, dns_queries |-> 0, connections |-> 0]

\* scan_network.py has not run.
NoReport == [srp |-> "none", main |-> "none"]

\* Part 2 while only the MITM controller runs: no monitor, no scanner, no
\* management tool, an empty database.
MonitorOff ==
    /\ cfg_file = DefaultConfig
    /\ filter_config = DefaultConfig
    /\ devices = <<>>
    /\ dns_queries = <<>>
    /\ connections = <<>>
    /\ now = 0
    /\ mon_pc = "off"
    /\ frame = NoFrame
    /\ mon_found = 0
    /\ device_id = 0
    /\ scan_pc = "off"
    /\ scan_devices = <<>>
    /\ scan_i = 1
    /\ scan_found = 0
    /\ scan_pending = <<>>
    /\ handled = 0
    /\ made = NoRows
    /\ caught = 0
    /\ cfg_ops = 0
    /\ scans = 0
    /\ scan_report = NoReport
    /\ resolved = <<>>
    /\ verdict = "none"
    /\ doc_at_frame = DefaultConfig

\* ------------------------------------------------------------ helpers
Targets == {target_ips[i] : i \in 1..Len(target_ips)}

\* The address pairs one pass over target_ips handles: (target, gateway)
\* and (gateway, target) for every target.
AllPairs == {<<t, gateway_ip>> : t \in Targets} \cup {<<gateway_ip, t>> : t \in Targets}

\* The link address that owns a network address.
MacOf(ip) == <<"mac", ip>>

\* get_mac: the hwsrc of the first answer, None without an answer or on
\* an exception inside srp.
get_mac(ip, answered) == IF answered THEN MacOf(ip) ELSE None

\* hasattr(os, 'geteuid')
HasGetEuid(p) == p # "win32"

\* Mutant of NotPrivileged: without os.geteuid the check passes.
NotPrivileged_NoFacilityPasses(p, uid) == IF HasGetEuid(p) THEN uid # 0 ELSE FALSE

\* main's privilege test: os.geteuid() != 0 if hasattr(os, 'geteuid') else True
NotPrivileged(p, uid) == IF HasGetEuid(p) THEN uid # 0 ELSE TRUE

\* The calls of main's try block, in order.
TrySteps(p) ==
    IF p = "linux"
    THEN <<"enable_ip_forwarding", "setup_iptables_redirect", "start_spoofing">>
    ELSE <<"enable_ip_forwarding", "start_spoofing">>

\* Mutant of FinallySteps: forwarding is switched off before the ARP caches
\* are corrected.
FinallySteps_ForwardingBeforeRestore(p) ==
    IF p = "linux"
    THEN <<"cleanup_iptables", "disable_ip_forwarding", "restore_network">>
    ELSE <<"disable_ip_forwarding", "restore_network">>

\* Mutant of FinallySteps: forwarding is switched off before the redirect is
\* removed.
FinallySteps_ForwardingFirst(p) ==
    IF p = "linux"
    THEN <<"disable_ip_forwarding", "cleanup_iptables", "restore_network">>
    ELSE <<"disable_ip_forwarding", "restore_network">>

\* The calls of main's finally block, in order.
FinallySteps(p) ==
    IF p = "linux"
    THEN <<"cleanup_iptables", "restore_network", "disable_ip_forwarding">>
    ELSE <<"restore_network", "disable_ip_forwarding">>

RECURSIVE IndexOf(_, _, _)
IndexOf(seq, s, i) ==
    IF i > Len(seq) THEN 0
    ELSE IF seq[i] = s THEN i
    ELSE IndexOf(seq, s, i + 1)

\* The element of seq after s, or end when s is the last one.
After(seq, s, end) ==
    LET i == IndexOf(seq, s, 1)
    IN  IF i = 0 \/ i = Len(seq) THEN end ELSE seq[i + 1]

\* Where control goes when the try block ends (normally or by a caught
\* exception): the first call of the finally block.
EnterFinally(p) == Head(FinallySteps(p))

AfterTry(p, s) == After(TrySteps(p), s, EnterFinally(p))
AfterFinally(p, s) == After(FinallySteps(p), s, "done")

TryPcs == {"enable_ip_forwarding", "setup_iptables_redirect", "start_spoofing"}
LoopPcs == {"spoof", "sleep"}
FinallyPcs == {"cleanup_iptables", "restore_network", "restore", "disable_ip_forwarding"}

\* The (destination, claimed/source) pair of the call at position (i, l)
\* of a loop body: first (target, gateway), then (gateway, target).
PairAt(i, l) ==
    IF l = 1 THEN <<target_ips[i], gateway_ip>> ELSE <<gateway_ip, target_ips[i]>>

\* ---------------------------------------------------------------- Init
InitMITM ==
    /\ platform \in Platforms
    /\ euid \in Euids
    /\ \E n \in 1..MaxTargets : target_ips = [i \in 1..n |-> i]
    /\ running = TRUE
    /\ packet_count = 0
    /\ ip_forward \in BOOLEAN
    /\ \E k \in 0..1 : nat = [p \in RedirectPorts |-> k]
    /\ pc = "check_priv"
    /\ ti = 1
    /\ leg = 1
    /\ exit_code = -1
    /\ raised = "none"
    /\ restored = {}
    /\ fwd0 = ip_forward
    /\ nat0 = nat
    /\ steps = <<>>
    /\ event = "init"
    /\ setup_failed = FALSE
    /\ restoreCalls = {}
    /\ spoofed = FALSE
    /\ attempted = {}
    /\ cycSent = {}
    /\ failed = {}
    /\ MonitorOff

\* ------------------------------------------------------------- actions
loopVars == <<packet_count, ti, leg, attempted, cycSent, failed>>
osVars == <<ip_forward, nat>>
cfgVars == <<platform, euid, target_ips, fwd0, nat0>>

\* main, lines 230-234: the privilege check.
check_priv ==
    /\ pc = "check_priv"
    /\ IF NotPrivileged(platform, euid)
       THEN /\ pc' = "done"
            /\ exit_code' = 1
       ELSE /\ pc' = Head(TrySteps(platform))
            /\ exit_code' = exit_code
    /\ event' = "check_priv"
    /\ UNCHANGED <<monVars, cfgVars, osVars, loopVars, running, raised, restored, steps,
                   setup_failed, restoreCalls, spoofed>>

\* The forwarding flag after enable_ip_forwarding, whose command ended ok or not.
EnabledFlag(p, flag, ok) ==
    IF p \in {"linux", "darwin"} /\ ok THEN TRUE ELSE flag

\* Whether enable_ip_forwarding left the flag unset by its own doing.
EnableFailed(p, ok) == ~(p \in {"linux", "darwin"} /\ ok) /\ p # "win32"

enable_ip_forwarding ==
    /\ pc = "enable_ip_forwarding"
    /\ \E ok \in BOOLEAN :
          /\ ip_forward' = EnabledFlag(platform, ip_forward, ok)
          /\ setup_failed' = (setup_failed \/ EnableFailed(platform, ok))
    /\ steps' = Append(steps, "enable_ip_forwarding")
    /\ event' = "enable_ip_forwarding"
    /\ pc' = AfterTry(platform, "enable_ip_forwarding")
    /\ UNCHANGED <<monVars, cfgVars, nat, loopVars, running, raised, restored, exit_code,
                   restoreCalls, spoofed>>

\* The rule count of one port after "iptables -A".
RuleAdded(count, ok) == IF ok THEN count + 1 ELSE count

setup_iptables_redirect ==
    /\ pc = "setup_iptables_redirect"
    /\ \E ok \in [RedirectPorts -> BOOLEAN] :
          /\ nat' = IF platform = "linux"
                    THEN [p \in RedirectPorts |-> RuleAdded(nat[p], ok[p])]
                    ELSE nat
          /\ setup_failed' = (setup_failed \/
                               (platform = "linux" /\ \E p \in RedirectPorts : ~ok[p]))
    /\ steps' = Append(steps, "setup_iptables_redirect")
    /\ event' = "setup_iptables_redirect"
    /\ pc' = AfterTry(platform, "setup_iptables_redirect")
    /\ UNCHANGED <<monVars, cfgVars, ip_forward, loopVars, running, raised, restored,
                   exit_code, restoreCalls, spoofed>>

\* start_spoofing, lines 121-133: the banner, then the first test of
\* self.running.
start_spoofing ==
    /\ pc = "start_spoofing"
    /\ steps' = Append(steps, "start_spoofing")
    /\ event' = "start_spoofing"
    /\ packet_count' = 0
    /\ attempted' = {}
    /\ cycSent' = {}
    /\ failed' = {}
    /\ IF running
       THEN pc' = "spoof" /\ ti' = 1 /\ leg' = 1
       ELSE pc' = AfterTry(platform, "start_spoofing") /\ ti' = ti /\ leg' = leg
    /\ UNCHANGED <<monVars, cfgVars, osVars, running, raised, restored, exit_code,
                   setup_failed, restoreCalls, spoofed>>

\* What one call of spoof does: no announcement without the target's link
\* address, else one announcement, unless sending raises.
SpoofOutcome(target_ip, answered, send_ok) ==
    IF get_mac(target_ip, answered) = None THEN "spoof_unresolved"
    ELSE IF send_ok THEN "spoof_sent"
    ELSE "spoof_error"

\* Mutant of SpoofNextPc: an unresolved link address ends the loop.
SpoofNextPc_AbortUnresolved(o) ==
    IF o \in {"spoof_error", "spoof_unresolved"} THEN EnterFinally(platform)
    ELSE IF leg = 2 /\ ti = Len(target_ips) THEN "sleep"
    ELSE "spoof"

\* Where the loop of start_spoofing goes after a call of spoof ended with
\* outcome o at position (ti, leg).
SpoofNextPc(o) == IF o = "spoof_error" THEN EnterFinally(platform)
                  ELSE IF leg = 2 /\ ti = Len(target_ips) THEN "sleep"
                  ELSE "spoof"

\* One call of spoof in the for loop of start_spoofing (lines 134-140).
spoof ==
    /\ pc = "spoof"
    /\ \E answered \in BOOLEAN, send_ok \in BOOLEAN :
          LET pair == PairAt(ti, leg)
              o == SpoofOutcome(pair[1], answered, send_ok)
              last == (leg = 2 /\ ti = Len(target_ips))
          IN  /\ event' = o
              /\ pc' = SpoofNextPc(o)
              /\ spoofed' = (spoofed \/ o = "spoof_sent")
              /\ IF o = "spoof_error"
                 THEN \* the exception leaves start_spoofing: main's except Exception
                      /\ raised' = "Exception"
                      /\ packet_count' = 0 /\ ti' = 1 /\ leg' = 1
                      /\ attempted' = {} /\ cycSent' = {} /\ failed' = {}
                 ELSE /\ raised' = raised
                      /\ attempted' = attempted \cup {pair}
                      /\ cycSent' = IF o = "spoof_sent" THEN cycSent \cup {pair} ELSE cycSent
                      /\ failed' = IF o = "spoof_unresolved" THEN failed \cup {pair} ELSE failed
                      /\ packet_count' = IF last THEN packet_count + 1 ELSE packet_count
                      /\ leg' = IF leg = 1 THEN 2 ELSE 1
                      /\ ti' = IF leg = 1 \/ last THEN ti ELSE ti + 1
    /\ UNCHANGED <<monVars, cfgVars, osVars, running, restored, exit_code, steps,
                   setup_failed, restoreCalls>>

\* Mutant of SleepNextPc: a one-shot attack, the loop ends after one cycle.
SleepNextPc_OneShot(r) == AfterTry(platform, "start_spoofing")

\* Where control goes when time.sleep(2) returns: the test of self.running.
SleepNextPc(r) == IF r THEN "spoof" ELSE AfterTry(platform, "start_spoofing")

\* time.sleep(2) returns and the while condition is tested (lines 133, 144).
sleep ==
    /\ pc = "sleep"
    /\ packet_count < MaxCycles
    /\ pc' = SleepNextPc(running)
    /\ ti' = 1 /\ leg' = 1
    /\ attempted' = {}
    /\ cycSent' = {}
    /\ event' = "sleep"
    /\ UNCHANGED <<monVars, cfgVars, osVars, running, packet_count, failed, raised, restored,
                   exit_code, steps, setup_failed, restoreCalls, spoofed>>

\* Where a KeyboardInterrupt raised at position p is handled: inside the try
\* of start_spoofing or of main control goes on to the finally block; inside
\* the finally block nothing catches it.
InterruptNextPc(p) == IF p \in TryPcs \cup LoopPcs THEN EnterFinally(platform) ELSE "done"

\* The operator's Ctrl+C (lines 146-148, 291-292).
interrupt ==
    /\ pc \in TryPcs \cup LoopPcs \cup FinallyPcs
    /\ pc' = InterruptNextPc(pc)
    /\ running' = IF pc \in LoopPcs THEN FALSE ELSE running
    /\ raised' = IF pc \in TryPcs \cup LoopPcs THEN "KeyboardInterrupt" ELSE raised
    /\ exit_code' = IF pc \in FinallyPcs THEN 130 ELSE exit_code
    /\ event' = "interrupt"
    /\ packet_count' = 0 /\ ti' = 1 /\ leg' = 1
    /\ attempted' = {} /\ cycSent' = {} /\ failed' = {}
    /\ UNCHANGED <<monVars, cfgVars, osVars, restored, steps, setup_failed, restoreCalls, spoofed>>

\* The rule count of one port after "iptables -D".
RuleDeleted(count, ok) == IF ok /\ count > 0 THEN count - 1 ELSE count

cleanup_iptables ==
    /\ pc = "cleanup_iptables"
    /\ \E ok \in [RedirectPorts -> BOOLEAN] :
          nat' = IF platform = "linux"
                 THEN [p \in RedirectPorts |-> RuleDeleted(nat[p], ok[p])]
                 ELSE nat
    /\ steps' = Append(steps, "cleanup_iptables")
    /\ event' = "cleanup_iptables"
    /\ pc' = AfterFinally(platform, "cleanup_iptables")
    /\ UNCHANGED <<monVars, cfgVars, ip_forward, loopVars, running, raised, restored,
                   exit_code, setup_failed, restoreCalls, spoofed>>

\* restore_network, lines 150-154: entering the for loop.
restore_network ==
    /\ pc = "restore_network"
    /\ steps' = Append(steps, "restore_network")
    /\ event' = "restore_network"
    /\ pc' = "restore"
    /\ ti' = 1 /\ leg' = 1
    /\ UNCHANGED <<monVars, cfgVars, osVars, running, packet_count, attempted, cycSent, failed,
                   raised, restored, exit_code, setup_failed, restoreCalls, spoofed>>

\* What one call of restore does.
RestoreOutcome(destination_ip, source_ip, dst_answered, src_answered, send_ok) ==
    IF get_mac(destination_ip, dst_answered) # None /\ get_mac(source_ip, src_answered) # None
    THEN IF send_ok THEN "restore_sent" ELSE "restore_error"
    ELSE "restore_skipped"

\* The packet restore sends.
RestorePacket(destination_ip, source_ip) ==
    [pdst |-> destination_ip, hwdst |-> MacOf(destination_ip),
     psrc |-> source_ip, hwsrc |-> MacOf(source_ip), count |-> RestoreCount]

\* Where restore_network goes after a call of restore with outcome o.
RestoreNextPc(o) == IF o = "restore_error" THEN "done"
                    ELSE IF leg = 2 /\ ti = Len(target_ips)
                         THEN AfterFinally(platform, "restore_network")
                    ELSE "restore"

\* One call of restore in the for loop of restore_network (lines 154-156).
restore ==
    /\ pc = "restore"
    /\ \E da \in BOOLEAN, sa \in BOOLEAN, send_ok \in BOOLEAN :
          LET pair == PairAt(ti, leg)
              o == RestoreOutcome(pair[1], pair[2], da, sa, send_ok)
              last == (leg = 2 /\ ti = Len(target_ips))
          IN  /\ event' = o
              /\ pc' = RestoreNextPc(o)
              /\ restoreCalls' = restoreCalls \cup {pair}
              /\ restored' = IF o = "restore_sent"
                             THEN restored \cup {RestorePacket(pair[1], pair[2])}
                             ELSE restored
              \* an exception raised in the finally block ends the process
              /\ exit_code' = IF o = "restore_error" THEN 1 ELSE exit_code
              /\ leg' = IF o = "restore_error" \/ last THEN 1 ELSE IF leg = 1 THEN 2 ELSE 1
              /\ ti' = IF o = "restore_error" \/ last THEN 1
                       ELSE IF leg = 1 THEN ti ELSE ti + 1
    /\ UNCHANGED <<monVars, cfgVars, osVars, running, packet_count, attempted, cycSent, failed,
                   raised, steps, setup_failed, spoofed>>

\* The forwarding flag after disable_ip_forwarding.
DisabledFlag(p, flag, ok) ==
    IF p \in {"linux", "darwin"} /\ ok THEN FALSE ELSE flag

disable_ip_forwarding ==
    /\ pc = "disable_ip_forwarding"
    /\ \E ok \in BOOLEAN : ip_forward' = DisabledFlag(platform, ip_forward, ok)
    /\ steps' = Append(steps, "disable_ip_forwarding")
    /\ event' = "disable_ip_forwarding"
    /\ pc' = AfterFinally(platform, "disable_ip_forwarding")
    /\ exit_code' = 0
    /\ UNCHANGED <<monVars, cfgVars, nat, loopVars, running, raised, restored, setup_failed,
                   restoreCalls, spoofed>>

NextMITM ==
    \/ check_priv
    \/ enable_ip_forwarding
    \/ setup_iptables_redirect
    \/ start_spoofing
    \/ spoof
    \/ sleep
    \/ interrupt
    \/ cleanup_iptables
    \/ restore_network
    \/ restore
    \/ disable_ip_forwarding

SpecMITM == InitMITM /\ [][NextMITM]_vars

\* ------------------------------------------------------- claim helpers
Called(s) == \E i \in 1..Len(steps) : steps[i] = s

\* b is called only after a has been called.
PrecededBy(b, a) ==
    Called(b) => (Called(a) /\ IndexOf(steps, a, 1) < IndexOf(steps, b, 1))

SetupStarted == Len(steps) > 0
ProcessEnded == pc = "done"
FinallyNames == {"cleanup_iptables", "restore_network", "disable_ip_forwarding"}
TeardownBegun == raised # "none" \/ \E s \in FinallyNames : Called(s)

\* Nothing is on that was off before the controller ran.
NothingLeftOn ==
    /\ ~fwd0 => ~ip_forward
    /\ \A p \in RedirectPorts : nat[p] <= nat0[p]

\* Every call of the finally block was made and restore_network made its
\* whole pass.
TeardownComplete ==
    /\ \A i \in 1..Len(FinallySteps(platform)) : Called(FinallySteps(platform)[i])
    /\ restoreCalls = AllPairs

\* -------------------------------------------------------------- claims

\* C1: every termination path that begins after setup has started ends with
\* IP forwarding disabled and the NAT redirect removed: at process end nothing
\* the controller switched on is still on.
C1_TeardownSymmetry == (ProcessEnded /\ SetupStarted) => NothingLeftOn

\* C2: once teardown has begun all of its steps are executed, even if an
\* earlier teardown step fails or an interrupt arrives during teardown.
C2_TeardownRunsToTheEnd == (ProcessEnded /\ SetupStarted) => TeardownComplete

\* C3 (as stated): during teardown the corrective ARP announcements are sent
\* first, then the NAT redirect rules are removed, then IP forwarding is
\* disabled.
C3_ArpThenNatThenForwarding ==
    /\ PrecededBy("cleanup_iptables", "restore_network")
    /\ platform = "linux" => PrecededBy("disable_ip_forwarding", "cleanup_iptables")
    /\ PrecededBy("disable_ip_forwarding", "restore_network")

\* C3 (amended): during teardown the NAT redirect rules are removed first
\* (Linux; elsewhere there is no NAT step), then restore_network makes its pass
\* over every target, then IP forwarding is disabled, in that order on every
\* exit path.
C3_NatThenArpThenForwarding ==
    /\ platform = "linux" => PrecededBy("restore_network", "cleanup_iptables")
    /\ platform # "linux" => ~Called("cleanup_iptables")
    /\ restoreCalls # {} => Called("restore_network")
    /\ PrecededBy("disable_ip_forwarding", "restore_network")
    /\ Called("disable_ip_forwarding") => restoreCalls = AllPairs

C3_Witness ==
    /\ ProcessEnded /\ exit_code = 0 /\ platform = "linux"
    /\ TeardownComplete
    /\ restored # {}

\* C4: on setup forwarding is enabled before the NAT redirect is installed and
\* the redirect before the first falsified announcement; no spoof announcement
\* is ever sent while forwarding is still disabled.
C4_SetupOrder ==
    /\ PrecededBy("setup_iptables_redirect", "enable_ip_forwarding")
    /\ PrecededBy("start_spoofing", "enable_ip_forwarding")
    /\ platform = "linux" => PrecededBy("start_spoofing", "setup_iptables_redirect")
    /\ event = "spoof_sent" => ip_forward

\* C5: teardown is the reverse of setup whatever triggered it: no falsified
\* announcement is sent after teardown begins, the NAT redirect is removed
\* only after spoofing has stopped, and forwarding is disabled only after the
\* redirect has been removed.
C5_TeardownReversesSetup ==
    /\ TeardownBegun => (pc \in FinallyPcs \cup {"done"} /\ event # "spoof_sent")
    /\ Called("cleanup_iptables") => (pc \notin TryPcs \cup LoopPcs /\ TeardownBegun)
    /\ platform = "linux" => PrecededBy("disable_ip_forwarding", "cleanup_iptables")

C5_Witness ==
    /\ ProcessEnded /\ exit_code = 0 /\ platform = "linux"
    /\ spoofed /\ ~running
    /\ Called("cleanup_iptables") /\ Called("disable_ip_forwarding")

\* C6: teardown only reverts what the controller itself changed: forwarding
\* that was enabled before, or a rule that existed before, is still there
\* after a teardown that ran to its end.
C6_OnlyOwnChangesReverted ==
    (ProcessEnded /\ exit_code = 0) =>
        /\ fwd0 => ip_forward
        /\ \A p \in RedirectPorts : nat[p] >= nat0[p]

\* C7: if enabling forwarding or installing the NAT redirect fails, setup
\* aborts: the spoof loop is never entered and no falsified announcement is
\* sent.
C7_SetupFailureAborts == setup_failed => (pc \notin LoopPcs /\ ~spoofed)

\* C8 (as stated): while running is true the loop keeps re-asserting, every
\* cycle covers every target both ways, and a further cycle follows until
\* running becomes false.
C8_LoopsWhileRunning ==
    /\ pc = "sleep" => attempted = AllPairs
    /\ event = "sleep" => pc = "spoof"
    /\ (Called("start_spoofing") /\ running) => pc \in LoopPcs

\* C8 (amended): each completed cycle attempts both announcements for every
\* target, and after the interval sleep a further cycle begins; the loop ends
\* only when running becomes false or when sending an announcement raises an
\* error, which ends the loop with running still true.
C8_LoopsUntilStopOrSendError ==
    /\ pc = "sleep" => attempted = AllPairs
    /\ event = "sleep" => (pc = "spoof" /\ ti = 1 /\ leg = 1 /\ attempted = {})
    /\ pc \in LoopPcs => running
    /\ (Called("start_spoofing") /\ running /\ pc \notin LoopPcs) => raised = "Exception"

C8_Witness ==
    /\ pc = "sleep" /\ packet_count >= 2
    /\ Len(target_ips) >= 2
    /\ attempted = AllPairs

\* C9: in the spoof loop a link address that cannot be resolved only skips
\* that announcement: the loop does not abort, the other pairs of the cycle
\* are still handled, and later cycles try the failed pair again.
C9_UnresolvedOnlySkips ==
    /\ event = "spoof_unresolved" => (pc \in LoopPcs /\ raised = "none" /\ running)
    /\ pc = "sleep" => \A p \in failed : p \in attempted
    /\ pc = "sleep" => \A p \in AllPairs : p \in cycSent \/ p \in failed

C9_Witness ==
    /\ pc = "sleep"
    /\ \E p \in failed : p \in cycSent
    /\ \E q \in attempted : q \notin cycSent
    /\ Cardinality(cycSent) >= 2

\* C10: teardown sends, for every configured target, the corrective
\* announcement to the target and the one to the gateway, each 4 times; no
\* target is left without both, even when teardown ran to its end.
C10_EveryTargetRestored ==
    (ProcessEnded /\ exit_code = 0) =>
        \A p \in AllPairs :
            \E r \in restored :
                /\ r.pdst = p[1] /\ r.psrc = p[2]
                /\ r.hwsrc = MacOf(p[2]) /\ r.count = 4

\* ====================================================================
\* Part 2: the passive monitor (network_monitor.py), the scanner
\* (scan_network.py) and the filter management tool (manage_devices.py).
\* The three are separate processes.  They share the database file and the
\* configuration document; the packets on the wire, the ARP replies, the
\* operator's commands and the passing of time are the environment.
\* ====================================================================

\* -------------------------------------------------------------- bounds
\* The longest interested_devices list a configuration document starts with.
MaxAllowed == 2
\* The largest number of runs of manage_devices.py.
MaxCfgOps == 1
\* The largest number of packets the monitor handles next to the scanner.
MaxPackets == 2
\* The largest number of runs of scan_network.py.
MaxScans == 1
\* The largest number of ARP replies to one scan.
MaxReplies == 2
\* The runs of manage_devices.py in a session of the operator alone.
MaxRuns == 3

\* The latest value of the clock.
MaxTime == 2

\* ---------------------------------------------------------- input sets
\* The link addresses of the hosts on the network, as scapy renders
\* Ether.src and ARP.hwsrc (lower-case hexadecimal): one with a letter, one
\* of digits only.
HwAddrs == {<<"a", "1">>, <<"1", "2">>}

\* The entries interested_devices may hold in a hand-edited document.
ListedMacs == {<<"a", "1", " ">>, <<"1", "2">>}

\* The link addresses the operator types for --add and --remove.
TypedMacs == {<<" ", "a", "1">>, <<"1", "2">>}

\* Network addresses, as their leading dotted parts.
SrcIps == {<<"192", "168">>, <<"10", "0">>, <<"172", "16">>, <<"172", "17">>, <<"8", "8">>}
DstIp == <<"1", "1">>
SrcPorts == {53, 443, 40000}
DstPorts == {22, 53, 80, 443, 8080, 8443}
QTypes == {1, 5, 15, 16, 28, 99}
QNames == {<<"x">>, <<"x", ".">>, <<"x", ".", ".">>}

\* Sequences over S of length at most n.
SeqsUpTo(S, n) == UNION {[1..k -> S] : k \in 0..n}

\* The configuration documents a run starts with.
Configs ==
    [monitor_all_devices : BOOLEAN, interested_devices : SeqsUpTo(ListedMacs, MaxAllowed)]

\* packet.haslayer(layer)
haslayer(p, layer) ==
    CASE layer = "Ether" -> p.ether # NoLayer
      [] layer = "IP" -> p.src # NoLayer
      [] layer = "TCP" -> p.l4 = "TCP"
      [] layer = "UDP" -> p.l4 = "UDP"
      [] layer = "DNS" -> p.dns
      [] layer = "DNSQR" -> p.dnsqr

\* What scapy can dissect: a question section belongs to a DNS message,
\* DNS is dissected on UDP port 53, and the fields of a missing layer are
\* absent.  qr is the DNS header's flag, 0 for a query and 1 for an answer;
\* queries go to port 53 and answers come from it.
WellFormed(p) ==
    /\ p.dnsqr => p.dns
    /\ p.dns => p.l4 = "UDP" /\ 53 \in {p.sport, p.dport}
    /\ p.qr = 1 => p.dns /\ p.sport = 53
    /\ (p.dns /\ p.qr = 0) => p.dport = 53
    /\ (p.qtype # 0) <=> p.dnsqr
    /\ (p.qname # <<>>) <=> p.dnsqr
    /\ (p.dst = NoLayer) <=> (p.src = NoLayer)

\* start_monitoring's capture filter "udp port 53 or tcp port 80 or tcp
\* port 443".
bpf(p) ==
    \/ p.l4 = "UDP" /\ 53 \in {p.sport, p.dport}
    \/ p.l4 = "TCP" /\ {p.sport, p.dport} \cap {80, 443} # {}

\* The packets sniff delivers to packet_handler.
Packets(macs, ips, sports, dports, qtypes) ==
    {p \in [ether : macs \cup {NoLayer}, src : ips \cup {NoLayer},
            dst : {DstIp, NoLayer}, l4 : {"TCP", "UDP"},
            sport : sports, dport : dports, dns : BOOLEAN, dnsqr : BOOLEAN,
            qr : {0, 1},
            qname : QNames \cup {<<>>}, qtype : qtypes \cup {0}] :
        WellFormed(p) /\ bpf(p)}

\* Every query type is tried with one name, every name with one type.
AllPackets ==
    {p \in Packets(HwAddrs, SrcIps, SrcPorts, DstPorts, QTypes) :
        p.qtype \in {0, 1} \/ p.qname = <<"x", ".">>}

\* ------------------------------------------------------------ the monitor
\* Mutant of SelectId: a SELECT without its WHERE clause, the first row.
SelectId_AnyRow(rows, mac) == IF rows = <<>> THEN 0 ELSE 1

\* SELECT id FROM devices WHERE mac_address = ?  (0: no row)
SelectId(rows, mac) ==
    IF \E i \in DOMAIN rows : rows[i].mac_address = mac
    THEN CHOOSE i \in DOMAIN rows : rows[i].mac_address = mac
    ELSE 0

\* packet[Ether].src if packet.haslayer(Ether) else 'Unknown'
mac_address(p) == IF haslayer(p, "Ether") THEN p.ether ELSE Unknown

\* packet[IP].src if packet.haslayer(IP) else 'Unknown'
source_ip(p) == IF haslayer(p, "IP") THEN p.src ELSE Unknown

\* Mutant of is_device_allowed: the first call lets every address through.
is_device_allowed_FirstCall(cfg, mac) ==
    IF cfg.monitor_all_devices \/ handled = 0 THEN TRUE
    ELSE \E i \in DOMAIN cfg.interested_devices :
             strip(upper(cfg.interested_devices[i])) = strip(upper(mac))

\* Mutant of is_device_allowed: the entries of the list are compared as
\* they are written.
is_device_allowed_RawList(cfg, mac) ==
    IF cfg.monitor_all_devices THEN TRUE
    ELSE \E i \in DOMAIN cfg.interested_devices :
             cfg.interested_devices[i] = strip(upper(mac))

\* NetworkMonitor.is_device_allowed, for the configuration cfg.
is_device_allowed(cfg, mac) ==
    IF cfg.monitor_all_devices THEN TRUE
    ELSE LET mac_normalized == strip(upper(mac))
             interested_devices ==
                 [i \in DOMAIN cfg.interested_devices |->
                     strip(upper(cfg.interested_devices[i]))]
         IN  \E i \in DOMAIN interested_devices : interested_devices[i] = mac_normalized

\* Mutant of Path: the test for the IP layer comes first.
Path_ConnectionFirst(p) ==
    IF haslayer(p, "IP") THEN "log_connection"
    ELSE IF haslayer(p, "DNS") /\ haslayer(p, "DNSQR") THEN "log_dns_query"
    ELSE "none"

\* packet_handler's if/elif: the log function the packet goes to.
Path(p) ==
    IF haslayer(p, "DNS") /\ haslayer(p, "DNSQR") THEN "log_dns_query"
    ELSE IF haslayer(p, "IP") THEN "log_connection"
    ELSE "none"

\* log_connection's test for the local network.
Outbound(p) == startswith(p.src, LocalPrefixes)

\* log_connection's port test; protocol is the transport of the packet.
PortLogged(p) ==
    IF haslayer(p, "TCP") THEN p.dport \in WebPorts ELSE p.dport # 53

protocol(p) == IF haslayer(p, "TCP") THEN "TCP" ELSE "UDP"

\* Mutant of Passes: log_connection does not test the port.
Passes_AnyPort(p) ==
    /\ Path(p) # "none"
    /\ is_device_allowed(filter_config, mac_address(p))
    /\ Path(p) = "log_connection" =>
          /\ haslayer(p, "TCP") \/ haslayer(p, "UDP")
          /\ Outbound(p)

\* Mutant of Passes: the log functions do not ask the filter.
Passes_Unfiltered(p) ==
    /\ Path(p) # "none"
    /\ Path(p) = "log_connection" =>
          /\ haslayer(p, "TCP") \/ haslayer(p, "UDP")
          /\ Outbound(p)
          /\ PortLogged(p)

\* The packet gets past every return of its log function, so that
\* get_or_create_device is called.
Passes(p) ==
    /\ Path(p) # "none"
    /\ is_device_allowed(filter_config, mac_address(p))
    /\ Path(p) = "log_connection" =>
          /\ haslayer(p, "TCP") \/ haslayer(p, "UDP")
          /\ Outbound(p)
          /\ PortLogged(p)

\* What is_device_allowed answered for the packet, if it was asked.
Verdict(p) ==
    IF Path(p) = "none" THEN "none"
    ELSE IF is_device_allowed(filter_config, mac_address(p)) THEN "allowed"
    ELSE "rejected"

\* packet_handler up to get_or_create_device's SELECT: the packet is
\* classified, the log function extracts the addresses, asks the filter,
\* applies its own tests and looks the device up.
packet_handler(p) ==
    /\ mon_pc = "sniff"
    /\ frame' = p
    /\ handled' = handled + 1
    /\ made' = NoRows
    /\ doc_at_frame' = cfg_file
    /\ verdict' = Verdict(p)
    /\ device_id' = 0
    /\ IF Passes(p)
       THEN /\ mon_found' = SelectId(devices, mac_address(p))
            /\ mon_pc' = "get_or_create_device"
       ELSE /\ mon_found' = 0
            /\ mon_pc' = "sniff"
    /\ UNCHANGED <<mitmVars, fileVars, dbVars, now, filter_config, caught, scanVars,
                   resolved>>

\* Mutant of except_Exception: the exception is not caught and ends the
\* capture loop.
except_Exception_Uncaught == "stopped"

\* Where control goes when a log function raises: its except Exception
\* prints the error and packet_handler returns to sniff.
except_Exception == "sniff"

\* One more entry of the history of resolutions.
Resolution(by, run, mac, ip, ok) ==
    [by |-> by, run |-> run, mac |-> mac, ip |-> ip, at |-> now, ok |-> ok]

\* get_or_create_device after the SELECT: UPDATE the row found or INSERT a
\* new one, then commit.  The INSERT of a link address that has a row by
\* now violates the UNIQUE constraint; the sqlite3.IntegrityError is caught
\* by the log function, which drops the packet.  While the scanner's
\* transaction is open the statement waits.
get_or_create_device ==
    /\ mon_pc = "get_or_create_device"
    /\ scan_pending = <<>>
    /\ LET mac == mac_address(frame)
           ip == source_ip(frame)
       IN  IF mon_found # 0
           THEN /\ devices' = [devices EXCEPT ![mon_found].last_seen = now,
                                              ![mon_found].ip_address = ip]
                /\ device_id' = mon_found
                /\ made' = made
                /\ caught' = caught
                /\ mon_pc' = Path(frame)
                /\ resolved' = Append(resolved, Resolution("monitor", handled, mac, ip, TRUE))
           ELSE IF SelectId(devices, mac) # 0
           THEN /\ mon_pc' = except_Exception
                /\ caught' = caught + 1
                /\ resolved' = Append(resolved, Resolution("monitor", handled, mac, ip, FALSE))
                /\ UNCHANGED <<devices, device_id, made>>
           ELSE /\ devices' = Append(devices,
                                     [mac_address |-> mac, ip_address |-> ip,
                                      hostname |-> None, first_seen |-> now,
                                      last_seen |-> now])
                /\ device_id' = Len(devices) + 1
                /\ made' = [made EXCEPT !.devices = @ + 1]
                /\ caught' = caught
                /\ mon_pc' = Path(frame)
                /\ resolved' = Append(resolved, Resolution("monitor", handled, mac, ip, TRUE))
    /\ UNCHANGED <<mitmVars, fileVars, dns_queries, connections, now, filter_config,
                   frame, mon_found, handled, scanVars, verdict, doc_at_frame>>

\* log_dns_query after get_or_create_device: the row of dns_queries.
log_dns_query ==
    /\ mon_pc = "log_dns_query"
    /\ scan_pending = <<>>
    /\ dns_queries' = Append(dns_queries,
                             [device_id |-> device_id,
                              source_ip |-> source_ip(frame),
                              query_name |-> rstrip(frame.qname, "."),
                              query_type |-> qtype_map(frame.qtype)])
    /\ made' = [made EXCEPT !.dns_queries = @ + 1]
    /\ mon_pc' = "sniff"
    /\ UNCHANGED <<mitmVars, fileVars, devices, connections, now, filter_config,
                   frame, mon_found, device_id, handled, caught, scanVars, histVars>>

\* log_connection after get_or_create_device: the row of connections.
log_connection ==
    /\ mon_pc = "log_connection"
    /\ scan_pending = <<>>
    /\ connections' = Append(connections,
                             [device_id |-> device_id,
                              source_ip |-> frame.src,
                              dest_ip |-> frame.dst,
                              dest_port |-> frame.dport,
                              protocol |-> protocol(frame)])
    /\ made' = [made EXCEPT !.connections = @ + 1]
    /\ mon_pc' = "sniff"
    /\ UNCHANGED <<mitmVars, fileVars, devices, dns_queries, now, filter_config,
                   frame, mon_found, device_id, handled, caught, scanVars, histVars>>

\* sqlite3's busy timeout: a statement of the monitor that has waited too
\* long for the scanner's transaction raises sqlite3.OperationalError
\* (database is locked); the log function catches it and the packet's row
\* is not written.
database_locked ==
    /\ mon_pc \in {"get_or_create_device", "log_dns_query", "log_connection"}
    /\ scan_pending # <<>>
    /\ mon_pc' = except_Exception
    /\ caught' = caught + 1
    /\ resolved' = IF mon_pc = "get_or_create_device"
                   THEN Append(resolved,
                               Resolution("monitor", handled, mac_address(frame),
                                          source_ip(frame), FALSE))
                   ELSE resolved
    /\ UNCHANGED <<mitmVars, fileVars, dbVars, now, filter_config, frame, mon_found,
                   device_id, handled, made, scanVars, verdict, doc_at_frame>>

\* ------------------------------------------------- the management tool
\* list.remove(x): the first occurrence goes.
RECURSIVE remove(_, _)
remove(lst, x) ==
    IF lst = <<>> THEN <<>>
    ELSE IF Head(lst) = x THEN Tail(lst)
    ELSE <<Head(lst)>> \o remove(Tail(lst), x)

In(x, lst) == \E i \in DOMAIN lst : lst[i] = x

toolVars == <<mitmVars, dbVars, now, monitorVars, scanVars, histVars>>

\* manage_devices.py --add
add_device(typed) ==
    /\ cfg_ops' = cfg_ops + 1
    /\ LET mac == strip(upper(typed))
       IN  IF In(mac, cfg_file.interested_devices)
           THEN cfg_file' = cfg_file
           ELSE cfg_file' = [cfg_file EXCEPT !.interested_devices = Append(@, mac)]
    /\ UNCHANGED toolVars

\* manage_devices.py --remove
remove_device(typed) ==
    /\ cfg_ops' = cfg_ops + 1
    /\ LET mac == strip(upper(typed))
       IN  IF ~In(mac, cfg_file.interested_devices)
           THEN cfg_file' = cfg_file
           ELSE cfg_file' = [cfg_file EXCEPT !.interested_devices = remove(@, mac)]
    /\ UNCHANGED toolVars

\* manage_devices.py --enable-filter
enable_filter ==
    /\ cfg_ops' = cfg_ops + 1
    /\ IF cfg_file.interested_devices = <<>>
       THEN cfg_file' = cfg_file
       ELSE cfg_file' = [cfg_file EXCEPT !.monitor_all_devices = FALSE]
    /\ UNCHANGED toolVars

\* manage_devices.py --disable-filter
disable_filter ==
    /\ cfg_ops' = cfg_ops + 1
    /\ cfg_file' = [cfg_file EXCEPT !.monitor_all_devices = TRUE]
    /\ UNCHANGED toolVars

\* manage_devices.py --clear
clear ==
    /\ cfg_ops' = cfg_ops + 1
    /\ cfg_file' = [cfg_file EXCEPT !.interested_devices = <<>>]
    /\ UNCHANGED toolVars

\* The list after add_device_interactive's loop over the chosen numbers:
\* the link address of each row, as stored, is appended unless it is in
\* the list.
RECURSIVE Chosen(_, _)
Chosen(lst, indices) ==
    IF indices = <<>> THEN lst
    ELSE LET mac == devices[Head(indices)].mac_address
         IN  Chosen(IF In(mac, lst) THEN lst ELSE Append(lst, mac), Tail(indices))

\* manage_devices.py --interactive: nothing happens without detected
\* devices or when the operator quits; else the chosen devices are added,
\* the document is saved, and with filtering off the operator may have
\* enable_filter called.
add_device_interactive(quit, indices, yes) ==
    /\ cfg_ops' = cfg_ops + 1
    /\ IF devices = <<>> \/ quit
       THEN cfg_file' = cfg_file
       ELSE LET lst == Chosen(cfg_file.interested_devices, indices)
            IN  cfg_file' = [monitor_all_devices |->
                                IF cfg_file.monitor_all_devices /\ yes /\ lst # <<>>
                                THEN FALSE
                                ELSE cfg_file.monitor_all_devices,
                            interested_devices |-> lst]
    /\ UNCHANGED toolVars

\* ---------------------------------------------------- the monitor alone
\* Part 1 while the MITM controller does not run.
MitmOff ==
    /\ platform = "linux"
    /\ euid = 0
    /\ target_ips = <<1>>
    /\ running = FALSE
    /\ packet_count = 0
    /\ ip_forward = FALSE
    /\ nat = [p \in RedirectPorts |-> 0]
    /\ pc = "off"
    /\ ti = 1
    /\ leg = 1
    /\ exit_code = -1
    /\ raised = "none"
    /\ restored = {}
    /\ fwd0 = ip_forward
    /\ nat0 = nat
    /\ steps = <<>>
    /\ event = "init"
    /\ setup_failed = FALSE
    /\ restoreCalls = {}
    /\ spoofed = FALSE
    /\ attempted = {}
    /\ cycSent = {}
    /\ failed = {}

\* A device an earlier run of scan_network.py has saved, with its name.
ScannedDeviceRow ==
    [mac_address |-> <<"1", "2">>, ip_address |-> <<"10", "0">>,
     hostname |-> "host", first_seen |-> 0, last_seen |-> 0]

\* A row of devices as an earlier run left it.
KnownDevice ==
    [mac_address |-> <<"a", "1">>, ip_address |-> <<"192", "168">>,
     hostname |-> None, first_seen |-> 0, last_seen |-> 0]

\* The monitor has been constructed: __init__ has loaded the document.
\* The database is empty or holds one device.
InitMonitor ==
    /\ MitmOff
    /\ cfg_file \in Configs
    /\ filter_config = cfg_file
    /\ devices \in {<<>>, <<KnownDevice>>}
    /\ dns_queries = <<>>
    /\ connections = <<>>
    /\ now = 0
    /\ mon_pc = "sniff"
    /\ frame = NoFrame
    /\ mon_found = 0
    /\ device_id = 0
    /\ scan_pc = "off"
    /\ scan_devices = <<>>
    /\ scan_i = 1
    /\ scan_found = 0
    /\ scan_pending = <<>>
    /\ handled = 0
    /\ made = NoRows
    /\ caught = 0
    /\ cfg_ops = 0
    /\ scans = 0
    /\ scan_report = NoReport
    /\ resolved = <<>>
    /\ verdict = "none"
    /\ doc_at_frame = cfg_file

\* The monitor alone: one packet, any packet.
NextMonitor ==
    \/ \E p \in AllPackets : handled = 0 /\ packet_handler(p)
    \/ get_or_create_device
    \/ log_dns_query
    \/ log_connection

SpecMonitor == InitMonitor /\ [][NextMonitor]_vars

\* ------------------------------------------- the monitor and the tool
\* The DNS questions of the hosts of the network, from one network address
\* each, and one of a packet without a link layer.
FilterPackets ==
    {p \in Packets(HwAddrs, {<<"192", "168">>}, {40000}, {53}, {1}) :
        Path(p) = "log_dns_query" /\ haslayer(p, "IP") /\ p.qname = <<"x", ".">>}

\* The operator runs manage_devices.py while the monitor handles packets.
NextFilter ==
    \/ \E p \in FilterPackets : handled < MaxPackets /\ packet_handler(p)
    \/ get_or_create_device
    \/ log_dns_query
    \/ \E typed \in TypedMacs : cfg_ops < MaxCfgOps /\ add_device(typed)
    \/ \E typed \in TypedMacs : cfg_ops < MaxCfgOps /\ remove_device(typed)
    \/ cfg_ops < MaxCfgOps /\ enable_filter
    \/ cfg_ops < MaxCfgOps /\ disable_filter

SpecFilter == InitMonitor /\ [][NextFilter]_vars

\* ------------------------------------------------------------ the scanner
\* The answers to one ARP scan: the sender's network and link address, and
\* what get_hostname finds for it.
ScanIps == {<<"192", "168">>, <<"10", "0">>}
Hostnames == {None, "host"}
Replies == [psrc : ScanIps, hwsrc : HwAddrs, hostname : Hostnames]

\* srp pairs every probed address with at most one answer: the answers to
\* one scan come from distinct network addresses.
ScanResults ==
    {result \in SeqsUpTo(Replies, MaxReplies) :
        \A i, j \in DOMAIN result : result[i].psrc = result[j].psrc => i = j}

\* scan_network's entry of devices for one reply.
ScannedDevice(received) ==
    [ip |-> received.psrc, mac |-> upper(received.hwsrc), hostname |-> received.hostname]

\* The rows the scanner's connection sees: its own uncommitted writes once
\* its transaction has begun, the committed rows before.
ScanView == IF scan_pending = <<>> THEN devices ELSE scan_pending[1]

scannerVars == <<mitmVars, fileVars, dns_queries, connections, now, monitorVars,
                 verdict, doc_at_frame>>

\* main of scan_network.py up to the call of save_to_database: scan_network
\* (an empty list on PermissionError), the return on an empty list, and
\* --no-save.
scan_network(result, permitted, no_save) ==
    /\ scan_pc = "idle"
    /\ scans < MaxScans
    /\ scans' = scans + 1
    /\ scan_devices' = IF permitted
                       THEN [i \in DOMAIN result |-> ScannedDevice(result[i])]
                       ELSE <<>>
    /\ scan_pc' = IF scan_devices' = <<>> \/ no_save THEN "idle" ELSE "select"
    /\ scan_report' = [srp |-> IF permitted THEN "answered" ELSE "PermissionError",
                       main |-> IF scan_devices' = <<>> THEN "no_devices_found"
                                ELSE IF no_save THEN "display_devices"
                                ELSE "save_to_database"]
    /\ scan_i' = 1
    /\ scan_found' = 0
    /\ UNCHANGED <<scannerVars, devices, scan_pending, resolved>>

\* save_to_database, the SELECT for the device at scan_i.
save_select ==
    /\ scan_pc = "select"
    /\ scan_found' = SelectId(ScanView, scan_devices[scan_i].mac)
    /\ scan_pc' = "write"
    /\ UNCHANGED <<scannerVars, devices, scan_devices, scan_i, scan_pending, scans, scan_report,
                   resolved>>

\* An UPDATE that leaves the rows of devices the filter rejects alone.
UpdateByMac_OnlyAllowed(rows, device) ==
    [i \in DOMAIN rows |->
        IF rows[i].mac_address = device.mac /\ is_device_allowed(cfg_file, device.mac)
        THEN [rows[i] EXCEPT !.ip_address = device.ip,
                             !.hostname = device.hostname,
                             !.last_seen = now]
        ELSE rows[i]]

\* An UPDATE done as INSERT OR REPLACE: the row is deleted and a new one
\* is added at the end.
UpdateByMac_Replace(rows, device) ==
    SelectSeq(rows, LAMBDA r : r.mac_address # device.mac) \o
    << [mac_address |-> device.mac, ip_address |-> device.ip,
        hostname |-> device.hostname, first_seen |-> now, last_seen |-> now] >>

\* An UPDATE that also sets first_seen.
UpdateByMac_FirstSeen(rows, device) ==
    [i \in DOMAIN rows |->
        IF rows[i].mac_address = device.mac
        THEN [rows[i] EXCEPT !.ip_address = device.ip,
                             !.hostname = device.hostname,
                             !.first_seen = now,
                             !.last_seen = now]
        ELSE rows[i]]

\* UPDATE devices SET ip_address, hostname, last_seen WHERE mac_address = ?
UpdateByMac(rows, device) ==
    [i \in DOMAIN rows |->
        IF rows[i].mac_address = device.mac
        THEN [rows[i] EXCEPT !.ip_address = device.ip,
                             !.hostname = device.hostname,
                             !.last_seen = now]
        ELSE rows[i]]

\* The resolutions of the running scan are undone with its transaction.
RolledBack(history) ==
    [i \in DOMAIN history |->
        IF history[i].by = "scan" /\ history[i].run = scans
        THEN [history[i] EXCEPT !.ok = FALSE]
        ELSE history[i]]

\* save_to_database, the UPDATE or INSERT for the device at scan_i.  The
\* first statement begins the scanner's transaction.  The INSERT of a link
\* address that has a row by now violates the UNIQUE constraint: the
\* sqlite3.IntegrityError is not caught, the scanner ends and its
\* transaction is rolled back.
save_write ==
    /\ scan_pc = "write"
    /\ LET device == scan_devices[scan_i]
       IN  IF scan_found # 0
           THEN /\ scan_pending' = <<UpdateByMac(ScanView, device)>>
                /\ resolved' = Append(resolved, Resolution("scan", scans, device.mac, device.ip, TRUE))
                /\ scan_i' = scan_i + 1
                /\ scan_pc' = IF scan_i = Len(scan_devices) THEN "commit" ELSE "select"
           ELSE IF SelectId(ScanView, device.mac) # 0
           THEN /\ scan_pending' = <<>>
                /\ resolved' = Append(RolledBack(resolved),
                                      Resolution("scan", scans, device.mac, device.ip, FALSE))
                /\ scan_i' = scan_i
                /\ scan_pc' = "idle"
           ELSE /\ scan_pending' = <<Append(ScanView,
                                            [mac_address |-> device.mac,
                                             ip_address |-> device.ip,
                                             hostname |-> device.hostname,
                                             first_seen |-> now,
                                             last_seen |-> now])>>
                /\ resolved' = Append(resolved, Resolution("scan", scans, device.mac, device.ip, TRUE))
                /\ scan_i' = scan_i + 1
                /\ scan_pc' = IF scan_i = Len(scan_devices) THEN "commit" ELSE "select"
    /\ UNCHANGED <<scannerVars, devices, scan_devices, scan_found, scans, scan_report>>

\* save_to_database, conn.commit(): the scanner's rows become the
\* committed rows.
save_commit ==
    /\ scan_pc = "commit"
    /\ devices' = ScanView
    /\ scan_pending' = <<>>
    /\ scan_pc' = "idle"
    /\ UNCHANGED <<scannerVars, scan_devices, scan_i, scan_found, scans, scan_report,
                   resolved>>

\* Time passes.
tick ==
    /\ now < MaxTime
    /\ now' = now + 1
    /\ UNCHANGED <<mitmVars, fileVars, dbVars, monitorVars, scanVars, histVars>>

\* --------------------------------------- the monitor and the scanner
\* The DNS questions of the hosts of the network.
RegistryPackets ==
    {p \in Packets(HwAddrs, ScanIps, {40000}, {53}, {1}) :
        /\ Path(p) = "log_dns_query"
        /\ haslayer(p, "Ether")
        /\ haslayer(p, "IP")
        /\ p.qname = <<"x", ".">>}

\* The monitor has been constructed with the default document, the
\* database is new, the scanner has not run.
InitRegistry ==
    /\ MitmOff
    /\ cfg_file = DefaultConfig
    /\ filter_config = cfg_file
    /\ devices = <<>>
    /\ dns_queries = <<>>
    /\ connections = <<>>
    /\ now = 0
    /\ mon_pc = "sniff"
    /\ frame = NoFrame
    /\ mon_found = 0
    /\ device_id = 0
    /\ scan_pc = "idle"
    /\ scan_devices = <<>>
    /\ scan_i = 1
    /\ scan_found = 0
    /\ scan_pending = <<>>
    /\ handled = 0
    /\ made = NoRows
    /\ caught = 0
    /\ cfg_ops = 0
    /\ scans = 0
    /\ scan_report = NoReport
    /\ resolved = <<>>
    /\ verdict = "none"
    /\ doc_at_frame = cfg_file

NextRegistry ==
    \/ \E p \in RegistryPackets : handled < MaxPackets /\ packet_handler(p)
    \/ get_or_create_device
    \/ log_dns_query
    \/ \E result \in ScanResults, permitted \in BOOLEAN, no_save \in BOOLEAN :
          scan_network(result, permitted, no_save)
    \/ save_select
    \/ save_write
    \/ save_commit
    \/ database_locked
    \/ tick

SpecRegistry == InitRegistry /\ [][NextRegistry]_vars

\* ------------------------- the monitor and the scanner, one host each
\* The DNS questions of the two hosts, from one network address.
CapturePackets == {p \in RegistryPackets : p.src = <<"192", "168">>}

\* The scans that find nothing or the host with link address 12.
CaptureResults ==
    {result \in ScanResults :
        \A i \in DOMAIN result :
            result[i] = [psrc |-> <<"192", "168">>, hwsrc |-> <<"1", "2">>,
                         hostname |-> None]}

NextCapture ==
    \/ \E p \in CapturePackets : handled < MaxPackets /\ packet_handler(p)
    \/ get_or_create_device
    \/ log_dns_query
    \/ \E result \in CaptureResults, permitted \in BOOLEAN, no_save \in BOOLEAN :
          scan_network(result, permitted, no_save)
    \/ save_select
    \/ save_write
    \/ save_commit
    \/ database_locked

SpecCapture == InitRegistry /\ [][NextCapture]_vars

\* ------------------------------------------------- the scanner alone
\* scan_network.py runs against a database that is new, or that the
\* monitor or an earlier scan has written to, under a filter document that
\* allows every device, none, or the device 12; no monitor is running.
ScanConfigs ==
    {DefaultConfig,
     [monitor_all_devices |-> FALSE, interested_devices |-> <<>>],
     [monitor_all_devices |-> FALSE, interested_devices |-> << <<"1", "2">> >>]}

InitScan ==
    /\ MitmOff
    /\ cfg_file \in ScanConfigs
    /\ filter_config = cfg_file
    /\ devices \in {<<>>, <<KnownDevice>>, <<ScannedDeviceRow>>}
    /\ dns_queries = <<>>
    /\ connections = <<>>
    /\ now = 0
    /\ mon_pc = "off"
    /\ frame = NoFrame
    /\ mon_found = 0
    /\ device_id = 0
    /\ scan_pc = "idle"
    /\ scan_devices = <<>>
    /\ scan_i = 1
    /\ scan_found = 0
    /\ scan_pending = <<>>
    /\ handled = 0
    /\ made = NoRows
    /\ caught = 0
    /\ cfg_ops = 0
    /\ scans = 0
    /\ scan_report = NoReport
    /\ resolved = <<>>
    /\ verdict = "none"
    /\ doc_at_frame = cfg_file

NextScan ==
    \/ \E result \in ScanResults, permitted \in BOOLEAN, no_save \in BOOLEAN :
          scan_network(result, permitted, no_save)
    \/ save_select
    \/ save_write
    \/ save_commit

SpecScan == InitScan /\ [][NextScan]_vars

\* ------------------------------------------- the management tool alone
\* The operator runs manage_devices.py several times.  device_filter.json
\* does not exist at first (load_config then gives the default document);
\* the database is empty, or holds the device the monitor has recorded, or
\* that and one the scanner has saved.
InitManage ==
    /\ MitmOff
    /\ cfg_file = DefaultConfig
    /\ filter_config = cfg_file
    /\ devices \in {<<>>, <<KnownDevice>>, <<KnownDevice, ScannedDeviceRow>>}
    /\ dns_queries = <<>>
    /\ connections = <<>>
    /\ now = 0
    /\ mon_pc = "off"
    /\ frame = NoFrame
    /\ mon_found = 0
    /\ device_id = 0
    /\ scan_pc = "off"
    /\ scan_devices = <<>>
    /\ scan_i = 1
    /\ scan_found = 0
    /\ scan_pending = <<>>
    /\ handled = 0
    /\ made = NoRows
    /\ caught = 0
    /\ cfg_ops = 0
    /\ scans = 0
    /\ scan_report = NoReport
    /\ resolved = <<>>
    /\ verdict = "none"
    /\ doc_at_frame = cfg_file

NextManage ==
    \/ \E typed \in TypedMacs : cfg_ops < MaxRuns /\ add_device(typed)
    \/ \E typed \in TypedMacs : cfg_ops < MaxRuns /\ remove_device(typed)
    \/ cfg_ops < MaxRuns /\ enable_filter
    \/ cfg_ops < MaxRuns /\ disable_filter
    \/ cfg_ops < MaxRuns /\ clear
    \/ \E quit \in BOOLEAN, indices \in SeqsUpTo(DOMAIN devices, 2), yes \in BOOLEAN :
          cfg_ops < MaxRuns /\ add_device_interactive(quit, indices, yes)

SpecManage == InitManage /\ [][NextManage]_vars

\* -------------------- the monitor and the scanner while time passes
NextSeen ==
    \/ NextCapture
    \/ tick

SpecSeen == InitRegistry /\ [][NextSeen]_vars

\* ------------------------------------------------ the HTTPS interceptor
\* SELECT id FROM devices WHERE ip_address = ?, then fetchone(): the ids
\* the lookup can return.  The statement has no ORDER BY, so with several
\* matching rows any of them can come first; no id (None) without a match.
get_device_id(rows, ip_address) ==
    {i \in DOMAIN rows : rows[i].ip_address = ip_address}

\* ------------------------------------------------------- claim helpers
\* Two spellings of one link address: equal once trimmed and uppercased.
SameLinkAddress(a, b) == upper(strip(a)) = upper(strip(b))

\* Neither the monitor nor the scanner is in the middle of a resolution.
Quiescent == mon_pc = "sniff" /\ scan_pc = "idle"

\* The resolutions of the link address of resolution k, and its rows.
ResolutionsOf(k) ==
    {i \in DOMAIN resolved : SameLinkAddress(resolved[i].mac, resolved[k].mac)}
RecordsOf(k) ==
    {i \in DOMAIN devices : SameLinkAddress(devices[i].mac_address, resolved[k].mac)}

Least(S) == CHOOSE i \in S : \A j \in S : i <= j
Greatest(S) == CHOOSE i \in S : \A j \in S : j <= i

NoneFailed == \A i \in DOMAIN resolved : resolved[i].ok

\* ------------------------------------------------------------- claims
\* C11: once a link address has been resolved any number of times, by
\* passive upserts and scan saves in any mix, one after the other, there is
\* exactly one device row for it; its network address is the one supplied
\* last and its first_seen is the time of the first resolution.
C11_OneRecordPerLinkAddress ==
    (Quiescent /\ NoneFailed) =>
        \A k \in DOMAIN resolved :
            /\ Cardinality(RecordsOf(k)) = 1
            /\ \A d \in RecordsOf(k) :
                  /\ devices[d].ip_address = resolved[Greatest(ResolutionsOf(k))].ip
                  /\ devices[d].first_seen = resolved[Least(ResolutionsOf(k))].at

\* The rows stored under exactly the key of resolution k.
RowsOfKey(k) == {i \in DOMAIN devices : devices[i].mac_address = resolved[k].mac}
CallsOfKey(k) == {i \in DOMAIN resolved : resolved[i].mac = resolved[k].mac}

\* C12: resolutions of one link address that overlap (both look the
\* address up before either writes) are serialised: none of them fails or
\* is lost, one row is created, and the row ends with the address of the
\* later write.
C12_ConcurrentResolutionsSerialised ==
    /\ NoneFailed
    /\ Quiescent =>
          \A k \in DOMAIN resolved :
              /\ Cardinality(RowsOfKey(k)) = 1
              /\ \A d \in RowsOfKey(k) :
                    devices[d].ip_address = resolved[Greatest(CallsOfKey(k))].ip

\* C13: the resolver's lookup key is the trimmed, uppercased link address,
\* so that spellings that differ in case or surrounding blanks share a row.
C13_LookupKeyNormalised ==
    /\ \A i \in DOMAIN devices :
          devices[i].mac_address = upper(strip(devices[i].mac_address))
    /\ \A i, j \in DOMAIN devices :
          SameLinkAddress(devices[i].mac_address, devices[j].mac_address) => i = j

\* The monitor has called packet_handler and has returned from it.
FrameDone == handled > 0 /\ mon_pc = "sniff"

\* C14: the filter comes before anything is recorded: a packet whose link
\* address is_device_allowed rejects leaves no dns_queries row, no
\* connections row and no device row, and get_or_create_device is not
\* called for it, whichever log function the packet went to.
C14_RejectedLeavesNoTrace ==
    verdict = "rejected" =>
        /\ made = NoRows
        /\ mon_pc = "sniff"
        /\ resolved = <<>>

\* A rejected packet that would have been logged as a connection.
C14_Witness ==
    /\ FrameDone
    /\ verdict = "rejected"
    /\ Path(frame) = "log_connection"
    /\ Outbound(frame)
    /\ PortLogged(frame)

\* The link address strings the filter is asked about: what a packet can
\* carry, and spellings with other case and with blanks around them.
ProbeMacs ==
    HwAddrs \cup ListedMacs \cup TypedMacs \cup
    {Unknown, <<"A", "1">>, <<"a", "2">>, <<" ", "1", "2", " ">>}

\* The filter as the claim words it: everything while monitor_all_devices
\* is set; otherwise the addresses whose trimmed, uppercased form is the
\* trimmed, uppercased form of an entry of the list.
AllowedAsSpecified(cfg, mac) ==
    \/ cfg.monitor_all_devices
    \/ \E i \in DOMAIN cfg.interested_devices :
          upper(strip(mac)) = upper(strip(cfg.interested_devices[i]))

\* C15: is_device_allowed is true for every address while monitor_all_devices
\* is set, and otherwise exactly for the addresses that match an entry of
\* interested_devices after trimming and uppercasing both; the answer the
\* log functions get for a packet is that one.
C15_FilterMatchesNormalised ==
    /\ \A mac \in ProbeMacs :
          is_device_allowed(filter_config, mac) <=> AllowedAsSpecified(filter_config, mac)
    /\ verdict # "none" =>
          ((verdict = "allowed") <=> AllowedAsSpecified(filter_config, mac_address(frame)))

\* With filtering on, a packet was allowed although its link address is
\* spelled differently from every entry of the list.
C15_Witness ==
    /\ FrameDone
    /\ verdict = "allowed"
    /\ ~filter_config.monitor_all_devices
    /\ ~In(mac_address(frame), filter_config.interested_devices)

C17_FilterFollowsDocument ==
    verdict # "none" =>
        ((verdict = "allowed") <=> AllowedAsSpecified(doc_at_frame, mac_address(frame)))

\* A DNS message with a question section.
IsDnsQuestion(p) == p.dns /\ p.dnsqr

\* C18: no packet yields both a dns_queries row and a connections row:
\* a packet adds at most one event row, a DNS question never adds a
\* connections row, and any other packet never adds a dns_queries row.
C18_AtMostOneEvent ==
    /\ made.dns_queries + made.connections <= 1
    /\ made.connections > 0 => ~IsDnsQuestion(frame)
    /\ made.dns_queries > 0 => IsDnsQuestion(frame)

\* A DNS question that log_connection would have logged too (a local source
\* and a UDP destination port other than 53) has been logged once, as a DNS
\* query.
C18_Witness ==
    /\ FrameDone
    /\ IsDnsQuestion(frame)
    /\ frame.src # NoLayer
    /\ startswith(frame.src, {<<"192", "168">>})
    /\ frame.dport # 53
    /\ made.dns_queries = 1
    /\ made.connections = 0

\* The connections row the current packet has added.
MadeConnection == connections[Len(connections)]

\* The packet is handed to log_connection and is neither rejected by the
\* filter nor from outside the local network.
ConnectionCandidate(p) ==
    /\ ~IsDnsQuestion(p)
    /\ haslayer(p, "IP")
    /\ verdict = "allowed"
    /\ Outbound(p)

\* C19: a TCP packet yields a connections row only for destination port 80,
\* 443, 8080 or 8443; a UDP packet that is not a DNS question yields none
\* for destination port 53 and yields one for every other port; the row's
\* protocol is the packet's transport and its port the packet's.
C19_PortPolicy ==
    /\ made.connections > 0 =>
          /\ MadeConnection.protocol = frame.l4
          /\ MadeConnection.dest_port = frame.dport
          /\ frame.l4 = "TCP" => frame.dport \in {80, 443, 8080, 8443}
          /\ frame.l4 = "UDP" => frame.dport # 53
    /\ (FrameDone /\ ConnectionCandidate(frame) /\ frame.l4 = "UDP") =>
          (made.connections = 1 <=> frame.dport # 53)
    /\ (FrameDone /\ ConnectionCandidate(frame) /\ frame.l4 = "TCP") =>
          (made.connections = 1 <=> frame.dport \in {80, 443, 8080, 8443})

\* A UDP packet to a port other than 53 has been logged as a connection.
C19_Witness ==
    /\ FrameDone
    /\ made.connections = 1
    /\ frame.l4 = "UDP"
    /\ MadeConnection.protocol = "UDP"

\* The private ranges 10/8, 172.16/12 and 192.168/16.
IsPrivate(ip) ==
    \/ ip[1] = "10"
    \/ ip[1] = "192" /\ ip[2] = "168"
    \/ ip[1] = "172" /\ ip[2] \in {ToString(n) : n \in 16..31}

\* C20: a packet whose IP source address is outside the private ranges
\* never yields a connections row, whatever its port, its protocol and the
\* filter's answer.
C20_PublicSourceNeverLogged ==
    made.connections > 0 => (haslayer(frame, "IP") /\ IsPrivate(frame.src))

\* A TCP packet to a web port from a public source, let through by the
\* filter, has been handled and has left no connections row.
C20_Witness ==
    /\ FrameDone
    /\ Path(frame) = "log_connection"
    /\ ~IsPrivate(frame.src)
    /\ verdict = "allowed"
    /\ frame.l4 = "TCP"
    /\ frame.dport = 443
    /\ made.connections = 0

\* The dns_queries row the current packet has added.
MadeDnsQuery == dns_queries[Len(dns_queries)]

\* The type names the claim lists; every other code is its decimal string.
TypeAsSpecified(n) ==
    IF n = 1 THEN "A"
    ELSE IF n = 28 THEN "AAAA"
    ELSE IF n = 5 THEN "CNAME"
    ELSE IF n = 15 THEN "MX"
    ELSE IF n = 16 THEN "TXT"
    ELSE ToString(n)

\* C21: the query_type of a dns_queries row is the name of the packet's
\* numeric type: 1 A, 28 AAAA, 5 CNAME, 15 MX, 16 TXT, and the decimal string
\* for every other code (99 gives "99").
C21_QueryTypeMapping ==
    made.dns_queries > 0 =>
        /\ MadeDnsQuery.query_type = TypeAsSpecified(frame.qtype)
        /\ frame.qtype = 99 => MadeDnsQuery.query_type = "99"

\* A question of the unlisted type 99 has been logged.
C21_Witness ==
    /\ FrameDone
    /\ made.dns_queries = 1
    /\ frame.qtype = 99
    /\ MadeDnsQuery.query_type = "99"

\* The name with exactly one trailing dot removed, if it has one.
WithoutOneDot(name) ==
    IF name # <<>> /\ name[Len(name)] = "." THEN SubSeq(name, 1, Len(name) - 1) ELSE name

\* C22: the query_name of a dns_queries row is the packet's name without
\* exactly one trailing dot: one dot is dropped, a name without a trailing
\* dot is kept, and of several trailing dots only the last is dropped.
C22_OneTrailingDotRemoved ==
    made.dns_queries > 0 => MadeDnsQuery.query_name = WithoutOneDot(frame.qname)

\* The packet is a lookup made by a device: a DNS question that is a query.
IsLookup(p) == IsDnsQuestion(p) /\ p.qr = 0

\* C23: events are produced exactly once per qualifying observation: a
\* lookup of an allowed device gives exactly one dns_queries row, a
\* qualifying connection attempt exactly one connections row, and the
\* packet that carries the answer to a lookup, which repeats the question,
\* gives no further dns_queries row.
C23_ExactlyOncePerObservation ==
    /\ made.dns_queries <= 1
    /\ made.connections <= 1
    /\ made.dns_queries > 0 => IsLookup(frame)
    /\ (FrameDone /\ IsLookup(frame) /\ verdict = "allowed") => made.dns_queries = 1

\* C24: an error while one packet is processed (here a failed write: the
\* UNIQUE constraint or a locked database) is caught inside packet handling
\* and does not end the capture loop: the monitor is always sniffing or
\* inside a log function, and after an error it sniffs again.
C24_ErrorsDoNotStopCapture ==
    /\ mon_pc \in {"sniff", "get_or_create_device", "log_dns_query", "log_connection"}
    /\ caught <= handled
    /\ (caught > 0 /\ made = NoRows /\ device_id = 0) => mon_pc \in {"sniff", "get_or_create_device"}

\* The first packet ended in a caught error; the second has been handled
\* and logged.
C24_Witness ==
    /\ FrameDone
    /\ caught = 1
    /\ handled = 2
    /\ made.dns_queries = 1
    /\ \E i \in DOMAIN resolved :
          resolved[i].by = "monitor" /\ resolved[i].run = 1 /\ ~resolved[i].ok

\* C25: the result of one scan holds at most one entry per link address.
C25_OneEntryPerLinkAddress ==
    \A i, j \in DOMAIN scan_devices :
        scan_devices[i].mac = scan_devices[j].mac => i = j

\* C26: a scan that could not run for lack of privilege does not give its
\* caller what a scan that found nothing gives: not both the empty list and
\* main's "No devices found" return.
C26_PrivilegeFailureDistinct ==
    scan_report.srp = "PermissionError" =>
        ~(scan_devices = <<>> /\ scan_report.main = "no_devices_found")

\* The scanner has saved the entries of its last scan.
Saved == scans > 0 /\ scan_pc = "idle" /\ scan_report.main = "save_to_database"

\* The last entry of the scan with the link address of entry i.
LastEntry(i) ==
    Greatest({j \in DOMAIN scan_devices : scan_devices[j].mac = scan_devices[i].mac})

\* C27: every saved entry of a scan has a row in devices, whatever the
\* filter document says about its link address: a row with that address
\* exists, and it carries the network address and hostname of the scan's
\* last entry for that address.
C27_ScanIsNeverFiltered ==
    Saved =>
        \A i \in DOMAIN scan_devices :
            \E r \in DOMAIN devices :
                /\ devices[r].mac_address = scan_devices[i].mac
                /\ devices[r].ip_address = scan_devices[LastEntry(i)].ip
                /\ devices[r].hostname = scan_devices[LastEntry(i)].hostname

\* A saved scan with two entries of one device the filter rejects: the
\* first created its row, the second updated it.
C27_Witness ==
    /\ Saved
    /\ Len(scan_devices) = 2
    /\ scan_devices[1].mac = scan_devices[2].mac
    /\ ~is_device_allowed(cfg_file, scan_devices[1].mac)
    /\ \E r \in DOMAIN devices :
          /\ devices[r].mac_address = scan_devices[2].mac
          /\ devices[r].ip_address = scan_devices[2].ip

\* C28: the exit status tells the outcomes apart: the privilege failure
\* exits non-zero, a setup that failed with nothing spoofed exits with a
\* non-zero status other than that of the privilege failure (here for the
\* runs whose teardown ran to its end), and a run in which setup succeeded and the operator's Ctrl+C ended the loop exits 0.
PrivilegeExitCode == 1

C28_ExitCodesDistinguishOutcomes ==
    ProcessEnded =>
        /\ NotPrivileged(platform, euid) => exit_code = PrivilegeExitCode
        /\ (setup_failed /\ ~spoofed /\ event = "disable_ip_forwarding")
               => exit_code \notin {0, PrivilegeExitCode}
        /\ (~setup_failed /\ raised = "KeyboardInterrupt" /\ event = "disable_ip_forwarding")
               => exit_code = 0

\* C29: running is true until a shutdown request and false from then on:
\* it is false only after a KeyboardInterrupt, and false whenever a
\* KeyboardInterrupt has stopped the controller.
C29_RunningFalseAfterShutdown ==
    /\ ~running => raised = "KeyboardInterrupt"
    /\ raised = "KeyboardInterrupt" => ~running

\* C30: no row of devices has the link address "Unknown", the value the
\* log functions use for a packet without an Ether layer.
C30_NoUnknownDevice ==
    \A r \in DOMAIN devices : devices[r].mac_address # Unknown

\* C31: no step deletes a device record or changes its link address: every
\* record of devices is still there after the step, under the same id and
\* with the same link address, so the set of link addresses only grows.
C31_RecordsKeptWithTheirLinkAddress ==
    [][/\ Len(devices') >= Len(devices)
       /\ \A r \in DOMAIN devices : devices'[r].mac_address = devices[r].mac_address]_vars

\* Two records exist: a committed scan save has created or updated the
\* first, the monitor the second.
C31_Witness ==
    /\ Len(devices) = 2
    /\ scan_pc = "idle"
    /\ scan_pending = <<>>
    /\ \E i \in DOMAIN resolved :
          resolved[i].by = "scan" /\ resolved[i].ok /\ resolved[i].mac = devices[1].mac_address
    /\ \E i \in DOMAIN resolved :
          resolved[i].by = "monitor" /\ resolved[i].ok /\ resolved[i].mac = devices[2].mac_address

\* C32: a TCP packet to port 443 of a device the filter allows, whose
\* source address lies in 10.0.0.0/8, 172.16.0.0/12 or 192.168.0.0/16,
\* yields one connections row.
C32_EveryPrivateRangeLogged ==
    (/\ FrameDone
     /\ Path(frame) = "log_connection"
     /\ frame.l4 = "TCP"
     /\ frame.dport = 443
     /\ verdict = "allowed"
     /\ IsPrivate(frame.src)) => made.connections = 1

\* C33: filtering is never on with an empty list.
C33_FilterOnImpliesListNonEmpty ==
    ~cfg_file.monitor_all_devices => cfg_file.interested_devices # <<>>

\* The handled packet is one of those the claim C34 is about: rejected by
\* the filter, or handed to log_connection with a source outside the
\* private ranges or a destination port out of scope.
Skipped ==
    /\ handled > 0
    /\ \/ verdict = "rejected"
       \/ /\ Path(frame) = "log_connection"
          /\ \/ ~IsPrivate(frame.src)
             \/ frame.l4 = "TCP" /\ frame.dport \notin {80, 443, 8080, 8443}
             \/ frame.l4 = "UDP" /\ frame.dport = 53

\* C34: a packet that is rejected by the filter, or comes from a source
\* that is not private, or goes to a port out of scope, leaves the database
\* as it was: packet_handler returns at once, no row is added to any table,
\* and get_or_create_device is not called, so no device row is updated.
C34_SkippedLeavesDatabaseUnchanged ==
    Skipped =>
        /\ mon_pc = "sniff"
        /\ made = NoRows
        /\ resolved = <<>>
        /\ dns_queries = <<>>
        /\ connections = <<>>
        /\ devices \in {<<>>, <<KnownDevice>>}

\* A TCP packet to port 22 from the recorded device, now at another private
\* address, allowed by the filter: the record still has the old address.
C34_Witness ==
    /\ FrameDone
    /\ verdict = "allowed"
    /\ Path(frame) = "log_connection"
    /\ frame.l4 = "TCP"
    /\ frame.dport = 22
    /\ frame.ether = KnownDevice.mac_address
    /\ frame.src = <<"10", "0">>
    /\ devices = <<KnownDevice>>

\* C35: every row of dns_queries and of connections refers to a row of
\* devices; the row written for the handled packet refers to the device
\* with the packet's source link address; and get_or_create_device has
\* returned that device before the log function writes its row.
C35_EventsReferToTheFramesDevice ==
    /\ \A i \in DOMAIN dns_queries : dns_queries[i].device_id \in DOMAIN devices
    /\ \A i \in DOMAIN connections : connections[i].device_id \in DOMAIN devices
    /\ made.dns_queries > 0 =>
          devices[MadeDnsQuery.device_id].mac_address = mac_address(frame)
    /\ made.connections > 0 =>
          devices[MadeConnection.device_id].mac_address = mac_address(frame)
    /\ (mon_pc \in {"log_dns_query", "log_connection"} \/ made.dns_queries + made.connections > 0) =>
          /\ device_id \in DOMAIN devices
          /\ devices[device_id].mac_address = mac_address(frame)
          /\ \E i \in DOMAIN resolved :
                /\ resolved[i].ok
                /\ resolved[i].run = handled
                /\ resolved[i].mac = mac_address(frame)

\* A connection has been logged for a device that was not known: the
\* second record is the packet's device and the row refers to it.
C35_Witness ==
    /\ FrameDone
    /\ made.connections = 1
    /\ made.devices = 1
    /\ Len(devices) = 2
    /\ MadeConnection.device_id = 2

\* C36: in every record first_seen is not later than last_seen, and no
\* step changes a record's first_seen or moves its last_seen back.
C36_SeenTimesOrdered ==
    /\ [](\A r \in DOMAIN devices : devices[r].first_seen <= devices[r].last_seen)
    /\ [][\A r \in DOMAIN devices :
             /\ devices'[r].first_seen = devices[r].first_seen
             /\ devices'[r].last_seen >= devices[r].last_seen]_vars

\* A record created at one time has been updated by the monitor and by a
\* committed scan save at later times.
C36_Witness ==
    /\ scan_pc = "idle"
    /\ scan_pending = <<>>
    /\ \E r \in DOMAIN devices :
          /\ devices[r].first_seen < devices[r].last_seen
          /\ \E i, j \in DOMAIN resolved :
                /\ resolved[i].by = "monitor" /\ resolved[i].ok
                /\ resolved[j].by = "scan" /\ resolved[j].ok
                /\ resolved[i].mac = devices[r].mac_address
                /\ resolved[j].mac = devices[r].mac_address
                /\ resolved[i].at > devices[r].first_seen \/ resolved[j].at > devices[r].first_seen

\* C37: no step replaces the hostname stored in a record by an absent one.
C37_HostnameNeverErased ==
    [][\A r \in DOMAIN devices :
          devices[r].hostname # None => devices'[r].hostname # None]_vars

\* The effective user is not root, or the platform has no os.geteuid.
PrivilegeCheckFails == euid # 0 \/ platform = "win32"

C39_ListNormalisedAndRemoveRejects ==
    [][/\ \A i, j \in DOMAIN cfg_file'.interested_devices :
             SameLinkAddress(cfg_file'.interested_devices[i],
                             cfg_file'.interested_devices[j]) => i = j
       /\ \A typed \in TypedMacs :
             (remove_device(typed) /\ ~cfg_file'.monitor_all_devices) =>
                 ~is_device_allowed(cfg_file', typed)]_vars

\* The last successful resolution that observed the network address.
LatestObservation(ip) ==
    Greatest({k \in DOMAIN resolved : resolved[k].ok /\ resolved[k].ip = ip})

\* C40: while no scan save is under way, at most one record carries a
\* given network address, and whatever id get_device_id returns for an
\* address is the record of the device that observed it most recently.
C40_LookupByAddressFindsLatestDevice ==
    (scan_pc = "idle" /\ scan_pending = <<>>) =>
        \A ip \in ScanIps :
            /\ Cardinality(get_device_id(devices, ip)) <= 1
            /\ \A id \in get_device_id(devices, ip) :
                  devices[id].mac_address = resolved[LatestObservation(ip)].mac

====
